---- MODULE Spec2Model ----
(***************************************************************************)
(* gaphas constraint kernel: src/gaphas/constraint.py.                     *)
(*                                                                         *)
(* Numbers.  Variable values are Python floats.  They are modelled in      *)
(* fixed point: a value is an integer number of units, EPSILON (1e-6) is   *)
(* EPSILON units wide, so two values may differ and still be equals(),     *)
(* and a float division is a division rounded to the nearest unit.  A      *)
(* ratio (balance, ratio_x, ratio_y) is the exact fraction <<num, den>>    *)
(* in lowest terms with den > 0.                                           *)
(*                                                                         *)
(* Variables.  A constraint's variables are its slots 1..n in the order    *)
(* its constructor passes them to Constraint.__init__; they are distinct   *)
(* Variable objects.  Other is a Variable the constraint does not hold,    *)
(* None is Python's None.                                                  *)
(***************************************************************************)
EXTENDS Integers, Sequences, FiniteSets

\* ---------------------------------------------------------------- bounds
\* External writes and constructor arguments draw values from 0..MaxVal.
MaxVal == 2
\* LessThanConstraint's delta is drawn from 0..MaxDelta.
MaxDelta == 2
\* A solve_for whose result leaves -Cap..Cap is not taken.
Cap == 2
\* mark_dirty calls that rotate the weakest list are counted up to MaxMarks.
MaxMarks == 7
\* The solver registers constraints over the variables 1..NumSolverVars.
NumSolverVars == 4

\* ------------------------------------------------------------- constants
\* EPSILON = 1e-6, in units.
EPSILON == 2
\* ITERLIMIT = 1000.
ITERLIMIT == 1000
\* close_runs = 10.
CLOSE_RUNS == 10
\* Variable strengths of gaphas.solver, as the doctests print them.
WEAK == 10
NORMAL == 20

Values == 0..MaxVal
\* LineConstraint's y axis (slots 2, 4, 6) is moved in whole steps of MaxVal;
\* the values closer than EPSILON are drawn on its x axis.
CoarseValues == {0, MaxVal}
Deltas == 0..MaxDelta
Strengths == {WEAK, NORMAL}

Kinds == {"Equals", "Center", "LessThan", "Balance", "Line", "Equation"}

\* The slots are the indices of Constraint._variables.
NoSlots == 6
Other == 7
None == 0

VARIABLES
    kind,      \* the constraint's class
    value,     \* Variable.value of the slots and of Other
    strength,  \* Variable.strength of the slots
    weakest,   \* Constraint._weakest
    delta,     \* LessThanConstraint.delta
    balance,   \* BalanceConstraint.balance
    ratio_x,   \* LineConstraint.ratio_x
    ratio_y,   \* LineConstraint.ratio_y
    last,      \* the last call: its name, argument, whether it raised, what it assigned to
    marks,     \* how many mark_dirty calls moved the weakest variable to the back
    registered, \* Solver: the constraints registered
    index,     \* Solver: variable -> the constraints indexed under it
    equation   \* EquationConstraint: _f, and the locals of the _solve_for call

cvars == <<kind, value, strength, weakest, delta, balance, ratio_x, ratio_y, marks>>
svars == <<registered, index>>
vars == <<kind, value, strength, weakest, delta, balance, ratio_x, ratio_y, last, marks,
          registered, index, equation>>

\* ------------------------------------------------------------ arithmetic
Abs(n) == IF n < 0 THEN -n ELSE n

Sign(n) == IF n < 0 THEN -1 ELSE 1

\* n / d as a float division: rounded to the nearest unit.
RoundDiv(n, d) == Sign(n) * Sign(d) * ((2 * Abs(n) + Abs(d)) \div (2 * Abs(d)))

RECURSIVE Gcd(_, _)
Gcd(m, n) == IF n = 0 THEN m ELSE Gcd(n, m % n)

\* The float n / d as a fraction in lowest terms.
Frac(n, d) ==
    LET g == Gcd(Abs(n), Abs(d))
    IN  <<Sign(d) * (n \div g), Abs(d) \div g>>

\* w * r for a float ratio r.
MulFrac(w, r) == RoundDiv(w * r[1], r[2])

equals(a, b) == Abs(a - b) < EPSILON

\* ------------------------------------------------------- Constraint base
\* len(self._variables): what each class passes to Constraint.__init__.
NumVariables(k) ==
    CASE k = "Equals" -> 2
      [] k = "Center" -> 3
      [] k = "LessThan" -> 2
      [] k = "Balance" -> 3
      [] k = "Line" -> 6
      [] k = "Equation" -> 3

\* Constraint.variables()
variables(k) == 1..NumVariables(k)

Min(S) == CHOOSE m \in S : \A n \in S : m <= n

\* The list l without its entries that fail the test keep.
RECURSIVE Filter(_, _)
Filter(l, keep) ==
    IF l = <<>> THEN <<>>
    ELSE IF Head(l) \in keep THEN <<Head(l)>> \o Filter(Tail(l), keep)
         ELSE Filter(Tail(l), keep)

\* create_weakest_list without the strength test: every variable is listed.
create_weakest_list_all(k, str) == [i \in 1..NumVariables(k) |-> i]

\* Constraint.create_weakest_list
create_weakest_list(k, str) ==
    LET m == Min({str[v] : v \in variables(k)})
    IN  Filter([i \in 1..NumVariables(k) |-> i], {v \in variables(k) : str[v] = m})

\* Constraint.weakest: the first element of _weakest.
weakest_var == weakest[1]

\* list.remove(v): the list without its first entry v.
RECURSIVE ListRemove(_, _)
ListRemove(l, v) ==
    IF l = <<>> THEN <<>>
    ELSE IF Head(l) = v THEN Tail(l) ELSE <<Head(l)>> \o ListRemove(Tail(l), v)

\* mark_dirty without the test for the current weakest: any v goes to the back.
mark_dirty_any(l, v) ==
    IF \E i \in 1..Len(l) : l[i] = v THEN Append(ListRemove(l, v), v) ELSE l

\* Constraint.mark_dirty: the new _weakest.
mark_dirty(l, v) == IF v = l[1] THEN Append(ListRemove(l, v), v) ELSE l

\* ------------------------------------------------- concrete constraints
\* Each solve_for is the set of assignments <<variable, new value>> it makes.

\* EqualsConstraint: assert var in (self.a, self.b)
EqualsConstraint_owns(var) == var \in {1, 2}

\* EqualsConstraint.solve_for with the two assignments exchanged.
EqualsConstraint_solve_for_other(val, var) ==
    IF ~equals(val[1], val[2])
    THEN IF var = 1 THEN {<<2, val[1]>>} ELSE {<<1, val[2]>>}
    ELSE {}

\* EqualsConstraint.solve_for, a = slot 1, b = slot 2.
EqualsConstraint_solve_for(val, var) ==
    IF ~equals(val[1], val[2])
    THEN IF var = 1 THEN {<<1, val[2]>>} ELSE {<<2, val[1]>>}
    ELSE {}

\* CenterConstraint: assert var in (self.a, self.b, self.center)
CenterConstraint_owns(var) == var \in {1, 2, 3}

\* CenterConstraint.solve_for, a = slot 1, b = slot 2, center = slot 3.
CenterConstraint_solve_for(val, var) ==
    LET v == RoundDiv(val[1] + val[2], 2)
    IN  IF ~equals(val[3], v) THEN {<<3, v>>} ELSE {}

\* LessThanConstraint.solve_for with delta left out of the assignments.
LessThanConstraint_solve_for_nodelta(val, d, var) ==
    IF val[1] > val[2] - d
    THEN IF var = 1 THEN {<<2, val[1]>>}
         ELSE IF var = 2 THEN {<<1, val[2]>>}
         ELSE {}
    ELSE {}

\* LessThanConstraint.solve_for, smaller = slot 1, bigger = slot 2.
LessThanConstraint_solve_for(val, d, var) ==
    IF val[1] > val[2] - d
    THEN IF var = 1 THEN {<<2, val[1] + d>>}
         ELSE IF var = 2 THEN {<<1, val[2] - d>>}
         ELSE {}
    ELSE {}

\* BalanceConstraint.update_balance, band = slots (1, 2), v = slot 3.
update_balance(val) ==
    LET w == val[2] - val[1]
    IN  IF w # 0 THEN Frac(val[3] - val[1], w) ELSE <<0, 1>>

\* The balanced value measured from band[1] instead of band[0].
BalanceConstraint_value_from_end(val, bal) == val[2] + MulFrac(val[2] - val[1], bal)

\* BalanceConstraint.solve_for: the value it computes.
BalanceConstraint_value(val, bal) == val[1] + MulFrac(val[2] - val[1], bal)

\* BalanceConstraint.solve_for: it assigns to var, whichever variable that is.
BalanceConstraint_solve_for(val, bal, var) ==
    LET v == BalanceConstraint_value(val, bal)
    IN  IF ~equals(val[var], v) THEN {<<var, v>>} ELSE {}

\* LineConstraint.update_ratio on one axis: start s, end e, point p.
update_ratio(val, s, e, p) ==
    IF val[e] - val[s] = 0 THEN <<0, 1>> ELSE Frac(val[p] - val[s], val[e] - val[s])

\* LineConstraint._solve with ratio_x and ratio_y exchanged.
LineConstraint_solve_swapped(val, rx, ry) ==
    LET x == val[1] + MulFrac(val[3] - val[1], ry)
        y == val[2] + MulFrac(val[4] - val[2], rx)
    IN  (IF ~equals(val[5], x) THEN {<<5, x>>} ELSE {})
        \cup (IF ~equals(val[6], y) THEN {<<6, y>>} ELSE {})

\* LineConstraint._solve: sx, sy, ex, ey, px, py = slots 1..6.
LineConstraint_solve(val, rx, ry) ==
    LET x == val[1] + MulFrac(val[3] - val[1], rx)
        y == val[2] + MulFrac(val[4] - val[2], ry)
    IN  (IF ~equals(val[5], x) THEN {<<5, x>>} ELSE {})
        \cup (IF ~equals(val[6], y) THEN {<<6, y>>} ELSE {})

\* EquationConstraint works in tenths of a unit, so that x0*1.1 is exact.
Tenths == 10

\* The doctest's function, lambda a, b, c: a + b - c, with the argument arg
\* replaced by x; a, b, c = slots 1, 2, 3; in tenths.
EquationConstraint_f(val, arg, x) ==
    LET at(i) == IF i = arg THEN x ELSE Tenths * val[i]
    IN  at(1) + at(2) - at(3)

\* EquationConstraint._solve_for: the Newton's method loop.
RECURSIVE EquationConstraint_loop(_, _, _, _, _, _, _)
EquationConstraint_loop(val, arg, x0, x1, fx0, n, close_runs) ==
    LET fx1 == EquationConstraint_f(val, arg, x1)
        close_flag == Abs(fx1 - fx0) < Tenths * EPSILON
    IN  IF fx1 = 0 \/ x1 = x0 THEN x1
        ELSE IF close_flag /\ close_runs = 0 THEN x1
        ELSE IF n > ITERLIMIT THEN x1
        ELSE IF fx1 - fx0 = 0 THEN x1
        ELSE EquationConstraint_loop(val, arg, x1,
                 x0 - RoundDiv(fx0 * (x1 - x0), fx1 - fx0), fx1, n + 1,
                 IF close_flag THEN close_runs - 1 ELSE close_runs)

\* EquationConstraint._solve_for: the seeds, then the loop; the result in units.
EquationConstraint_solve(val, arg) ==
    LET x0 == IF val[arg] # 0 THEN Tenths * val[arg] ELSE Tenths
        x1 == IF x0 = 0 THEN Tenths ELSE RoundDiv(x0 * 11, 10)
    IN  RoundDiv(EquationConstraint_loop(val, arg, x0, x1,
                     EquationConstraint_f(val, arg, x0), 0, CLOSE_RUNS), Tenths)

\* EquationConstraint.solve_for: arg is bound only when var is one of _args.
EquationConstraint_owns(var) == var \in {1, 2, 3}

\* EquationConstraint.solve_for: the write-back.
EquationConstraint_solve_for(val, var) ==
    LET v == EquationConstraint_solve(val, var)
    IN  IF val[var] # v THEN {<<var, v>>} ELSE {}

\* ----------------------------------------- EquationConstraint, pass by pass
\* The functions an EquationConstraint is made with, by name: the doctest's
\* a + b - c, and three without a root the loop can settle on:
\* |a + b - c| + 1, (a + b - c)^2 + 1 and the sign of a + b - c, times 3.
Functions == {"sum", "abs", "square", "step"}

\* f(x) of _solve_for: args[arg] = x, then self._f(**args); in tenths.
EquationConstraint_call(fn, val, arg, x) ==
    LET s == EquationConstraint_f(val, arg, x)
    IN  CASE fn = "sum" -> s
          [] fn = "abs" -> Abs(s) + Tenths
          [] fn = "square" -> RoundDiv(s * s, Tenths) + Tenths
          [] fn = "step" -> IF s > 0 THEN 3 * Tenths ELSE -3 * Tenths

\* An EquationConstraint made with the function fn, _solve_for not called yet.
NotCalled(fn) ==
    [f |-> fn, pc |-> "idle", exit |-> "", arg |-> None, x0 |-> 0, x1 |-> 0,
     fx0 |-> 0, n |-> 0, close_runs |-> 0, passes |-> 0, result |-> 0]

\* EquationConstraint.__init__: self._f = f
Function(fn) == equation = NotCalled(fn)

\* _solve_for up to the loop: close_runs, the seeds x0 and x1, fx0 and n.
EquationConstraint_enter(fr, val, arg) ==
    LET x0 == IF val[arg] # 0 THEN Tenths * val[arg] ELSE Tenths
        x1 == IF x0 = 0 THEN Tenths ELSE RoundDiv(x0 * 11, 10)
    IN  [f |-> fr.f, pc |-> "loop", exit |-> "", arg |-> arg, x0 |-> x0, x1 |-> x1,
         fx0 |-> EquationConstraint_call(fr.f, val, arg, x0), n |-> 0,
         close_runs |-> CLOSE_RUNS, passes |-> 0, result |-> 0]

\* break at the place named exit, then return x1
Returned(fr, exit) == [fr EXCEPT !.pc = "returned", !.exit = exit, !.result = fr.x1]

\* a division by zero: ZeroDivisionError leaves _solve_for
Raised(fr) == [fr EXCEPT !.pc = "raised"]

\* One pass of the loop body without its x1 == x0 test.
EquationConstraint_pass_untested(fr, val) ==
    LET fx1 == EquationConstraint_call(fr.f, val, fr.arg, fr.x1)
        close_flag == Abs(fx1 - fr.fx0) < Tenths * EPSILON
        ran == [fr EXCEPT !.passes = @ + 1,
                          !.close_runs = IF close_flag /\ @ # 0 THEN @ - 1 ELSE @]
    IN  IF fx1 = 0 THEN Returned([fr EXCEPT !.passes = @ + 1], "solved")
        ELSE IF close_flag /\ fr.close_runs = 0 THEN Returned(ran, "close")
        ELSE IF fr.n > ITERLIMIT THEN Returned(ran, "limit")
        ELSE IF fr.x1 - fr.x0 = 0 THEN Raised(ran)
        ELSE LET slope == Frac(fx1 - fr.fx0, fr.x1 - fr.x0)
             IN  IF slope[1] = 0 THEN Returned(ran, "slope")
                 ELSE [ran EXCEPT !.x0 = fr.x1, !.fx0 = fx1, !.n = @ + 1,
                                  !.x1 = fr.x0 - RoundDiv(fr.fx0 * slope[2], slope[1])]

\* One pass of the loop body: fx1 and the exit tests, in the order of the
\* code, then the slope and the next estimate. A division whose divisor is 0
\* raises.
EquationConstraint_pass(fr, val) ==
    LET fx1 == EquationConstraint_call(fr.f, val, fr.arg, fr.x1)
        close_flag == Abs(fx1 - fr.fx0) < Tenths * EPSILON
        ran == [fr EXCEPT !.passes = @ + 1,
                          !.close_runs = IF close_flag /\ @ # 0 THEN @ - 1 ELSE @]
    IN  IF fx1 = 0 \/ fr.x1 = fr.x0 THEN Returned([fr EXCEPT !.passes = @ + 1], "solved")
        ELSE IF close_flag /\ fr.close_runs = 0 THEN Returned(ran, "close")
        ELSE IF fr.n > ITERLIMIT THEN Returned(ran, "limit")
        ELSE IF fr.x1 - fr.x0 = 0 THEN Raised(ran)
        ELSE LET slope == Frac(fx1 - fr.fx0, fr.x1 - fr.x0)
             IN  IF slope[1] = 0 THEN Returned(ran, "slope")
                 ELSE [ran EXCEPT !.x0 = fr.x1, !.fx0 = fx1, !.n = @ + 1,
                                  !.x1 = fr.x0 - RoundDiv(fr.fx0 * slope[2], slope[1])]

\* ------------------------------------------------------------- operations
\* Whether solve_for(var) raises before it writes anything.
Raises(k, var) ==
    CASE k = "Equals" -> ~EqualsConstraint_owns(var)
      [] k = "Center" -> ~CenterConstraint_owns(var)
      [] k = "Equation" -> ~EquationConstraint_owns(var)
      [] OTHER -> FALSE

\* The assignments solve_for(var) makes.
Assignments(k, val, var) ==
    CASE k = "Equals" -> EqualsConstraint_solve_for(val, var)
      [] k = "Center" -> CenterConstraint_solve_for(val, var)
      [] k = "LessThan" -> LessThanConstraint_solve_for(val, delta, var)
      [] k = "Balance" -> BalanceConstraint_solve_for(val, balance, var)
      [] k = "Line" -> LineConstraint_solve(val, ratio_x, ratio_y)
      [] k = "Equation" -> EquationConstraint_solve_for(val, var)

\* The values after the assignments as.
Assign(val, as) ==
    [v \in DOMAIN val |-> IF \E a \in as : a[1] = v
                          THEN (CHOOSE a \in as : a[1] = v)[2] ELSE val[v]]

\* The record of a call: its name, its argument, whether it raised, and the
\* variables it assigned to.
Call(op, arg, err, as) ==
    [op |-> op, arg |-> arg, err |-> err, wrote |-> {a[1] : a \in as}]

\* What a caller may pass to solve_for: a variable of the constraint, another
\* Variable, and for LineConstraint.solve_for(var=None) nothing.
Arguments(k) == variables(k) \cup {Other} \cup (IF k = "Line" THEN {None} ELSE {})

\* The values the callers give the constraint's variable v.
ValueDomain(k, v) == IF k = "Line" /\ v \in {2, 4, 6} THEN CoarseValues ELSE Values

InRange(as) == \A a \in as : a[2] \in -Cap..Cap

\* c.solve_for(var)
SolveFor ==
    /\ \E var \in Arguments(kind) :
          IF Raises(kind, var)
          THEN /\ last' = Call("solve_for", var, TRUE, {})
               /\ value' = value
          ELSE LET as == Assignments(kind, value, var)
               IN  /\ InRange(as)
                   /\ value' = Assign(value, as)
                   /\ last' = Call("solve_for", var, FALSE, as)
    /\ UNCHANGED <<kind, strength, weakest, delta, balance, ratio_x, ratio_y, marks>>
    /\ UNCHANGED <<svars, equation>>

\* v.value = x, from outside the constraint.
SetValue ==
    /\ \E v \in variables(kind) : \E x \in ValueDomain(kind, v) :
          /\ value[v] # x
          /\ value' = [value EXCEPT ![v] = x]
          /\ last' = Call("set", None, FALSE, {<<v, x>>})
    /\ UNCHANGED <<kind, strength, weakest, delta, balance, ratio_x, ratio_y, marks>>
    /\ UNCHANGED <<svars, equation>>

\* bc.update_balance()
UpdateBalance ==
    /\ kind = "Balance"
    /\ balance' = update_balance(value)
    /\ last' = Call("update_balance", None, FALSE, {})
    /\ UNCHANGED <<kind, value, strength, weakest, delta, ratio_x, ratio_y, marks>>
    /\ UNCHANGED <<svars, equation>>

\* lc.update_ratio()
UpdateRatio ==
    /\ kind = "Line"
    /\ ratio_x' = update_ratio(value, 1, 3, 5)
    /\ ratio_y' = update_ratio(value, 2, 4, 6)
    /\ last' = Call("update_ratio", None, FALSE, {})
    /\ UNCHANGED <<kind, value, strength, weakest, delta, balance, marks>>
    /\ UNCHANGED <<svars, equation>>

\* c.mark_dirty(v)
MarkDirty ==
    /\ \E v \in variables(kind) \cup {Other} :
          /\ v = weakest_var => marks < MaxMarks
          /\ weakest' = mark_dirty(weakest, v)
          /\ marks' = IF v = weakest_var THEN marks + 1 ELSE marks
          /\ last' = Call("mark_dirty", v, FALSE, {})
    /\ UNCHANGED <<kind, value, strength, delta, balance, ratio_x, ratio_y>>
    /\ UNCHANGED <<svars, equation>>

\* ----------------------------------------------------------- construction
\* The values a constructor finds: the constraint's variables hold vs, every
\* other slot and Other hold 0.
ValuesOf(k) ==
    {[v \in 1..Other |-> IF v \in variables(k) THEN f[v] ELSE 0] :
        f \in {g \in [variables(k) -> Values] : \A v \in variables(k) : g[v] \in ValueDomain(k, v)}}

\* BalanceConstraint.__init__: balance as given, or update_balance().
Balances == {<<0, 1>>, <<1, 2>>, <<1, 1>>}

Constructed(k, val, str, d, bal) ==
    /\ kind = k
    /\ value = val
    /\ strength = str
    /\ weakest = create_weakest_list(k, str)
    /\ delta = IF k = "LessThan" THEN d ELSE 0
    /\ balance = IF k = "Balance" THEN bal ELSE <<0, 1>>
    /\ ratio_x = IF k = "Line" THEN update_ratio(val, 1, 3, 5) ELSE <<0, 1>>
    /\ ratio_y = IF k = "Line" THEN update_ratio(val, 2, 4, 6) ELSE <<0, 1>>
    /\ last = Call("init", None, FALSE, {})
    /\ marks = 0

NoSolver ==
    /\ registered = {}
    /\ index = [v \in {} |-> {}]

\* Every constraint over variables of the default strength.
Init ==
    /\ \E k \in Kinds :
       \E val \in ValuesOf(k), d \in Deltas :
       \E bal \in IF k = "Balance" THEN Balances \cup {update_balance(val)} ELSE {<<0, 1>>} :
          /\ k # "LessThan" => d = 0
          /\ Constructed(k, val, [v \in 1..NoSlots |-> NORMAL], d, bal)
    /\ NoSolver
    /\ Function("sum")

Next == SolveFor \/ SetValue \/ UpdateBalance \/ UpdateRatio

Spec == Init /\ [][Next]_vars

\* ------------------------------------------------------------ weakest list
\* The constructor's values of the weakest-list runs: every second variable
\* moved by MaxVal, either the odd or the even slots.
MovedValuesOf(k) ==
    {val \in ValuesOf(k) : \E r \in {0, 1} : \A v \in variables(k) :
        val[v] = IF v % 2 = r THEN MaxVal ELSE 0}

\* Every constraint over variables of every strength.
InitW ==
    /\ \E k \in Kinds :
       \E val \in MovedValuesOf(k), str \in [1..NoSlots -> Strengths] :
          /\ \A v \in 1..NoSlots : v \notin variables(k) => str[v] = NORMAL
          /\ Constructed(k, val, str, IF k = "LessThan" THEN MaxDelta ELSE 0,
                         IF k = "Balance" THEN update_balance(val) ELSE <<0, 1>>)
    /\ NoSolver
    /\ Function("sum")

NextW == MarkDirty \/ SolveFor

SpecW == InitW /\ [][NextW]_vars

\* ------------------------------------------------------- a line that moves
\* line[i][j].value = x, from outside: only the segment's endpoints move.
SetEndpoint ==
    /\ kind = "Line"
    /\ \E v \in 1..4 : \E x \in ValueDomain(kind, v) :
          /\ value[v] # x
          /\ value' = [value EXCEPT ![v] = x]
          /\ last' = Call("set", None, FALSE, {<<v, x>>})
    /\ UNCHANGED <<kind, strength, weakest, delta, balance, ratio_x, ratio_y, marks>>
    /\ UNCHANGED <<svars, equation>>

\* A LineConstraint as constructed: __init__ captures the ratios.
InitLine ==
    /\ \E val \in ValuesOf("Line") :
          Constructed("Line", val, [v \in 1..NoSlots |-> NORMAL], 0, <<0, 1>>)
    /\ NoSolver
    /\ Function("sum")

NextLine == SetEndpoint \/ SolveFor \/ UpdateRatio

SpecLine == InitLine /\ [][NextLine]_vars

\* ------------------------------------------------- the loop of _solve_for
\* cons._solve_for(arg, args) with args the values of the variables: the
\* statements before the loop.
CallSolveFor ==
    /\ kind = "Equation"
    /\ equation.pc # "loop"
    /\ \E arg \in variables(kind) :
          /\ equation' = EquationConstraint_enter(equation, value, arg)
          /\ last' = Call("_solve_for", arg, FALSE, {})
    /\ UNCHANGED <<cvars, svars>>

\* while 1: one pass of the body
LoopPass ==
    /\ equation.pc = "loop"
    /\ equation' = EquationConstraint_pass(equation, value)
    /\ UNCHANGED <<cvars, last, svars>>

\* An EquationConstraint over three variables, made with any of Functions:
\* a and b as Variable() makes them, c of any value.
InitSecant ==
    /\ \E val \in ValuesOf("Equation"), fn \in Functions :
          /\ val[1] = 0 /\ val[2] = 0
          /\ Constructed("Equation", val, [v \in 1..NoSlots |-> NORMAL], 0, <<0, 1>>)
          /\ Function(fn)
    /\ registered = {}
    /\ index = [v \in {} |-> {}]

NextSecant == CallSolveFor \/ LoopPass

\* The interpreter runs a loop it has entered: a pass that can be made is made.
SpecSecant == InitSecant /\ [][NextSecant]_vars /\ WF_vars(LoopPass)

\* ------------------------------------------------------------------ Solver
SolverVars == 1..NumSolverVars

\* The constraints a diagram registers, each named by its variables(): one
\* over every pair of variables, and one over the first three.
Constraints == {c \in SUBSET SolverVars : Cardinality(c) = 2} \cup {{1, 2, 3}}

\* Solver.add_constraint: c joins the index entry of every variable it references.
add_constraint(idx, c) ==
    [v \in DOMAIN idx \cup c |->
        IF v \in c THEN (IF v \in DOMAIN idx THEN idx[v] ELSE {}) \cup {c} ELSE idx[v]]

\* remove_constraint that clears only the entry of c's first variable.
remove_constraint_first(idx, c) ==
    LET left(v) == IF v = Min(c) THEN idx[v] \ {c} ELSE idx[v]
    IN  [v \in {u \in DOMAIN idx : left(u) # {}} |-> left(v)]

\* Solver.remove_constraint: c leaves every entry that holds it; an entry left
\* empty is dropped, a missing entry is skipped.
remove_constraint(idx, c) ==
    LET left(v) == IF v \in c THEN idx[v] \ {c} ELSE idx[v]
    IN  [v \in {u \in DOMAIN idx : left(u) # {}} |-> left(v)]

\* Solver.constraints_with_variable
constraints_with_variable(idx, v) == IF v \in DOMAIN idx THEN idx[v] ELSE {}

\* solver.add_constraint(c)
AddConstraint ==
    /\ \E c \in Constraints :
          /\ registered' = registered \cup {c}
          /\ index' = add_constraint(index, c)
          /\ last' = Call("add_constraint", c, FALSE, {})
    /\ UNCHANGED <<cvars, equation>>

\* solver.remove_constraint(c), registered or not
RemoveConstraint ==
    /\ \E c \in Constraints :
          /\ registered' = registered \ {c}
          /\ index' = remove_constraint(index, c)
          /\ last' = Call("remove_constraint", c, FALSE, {})
    /\ UNCHANGED <<cvars, equation>>

\* A solver with no constraint yet, beside one constraint it does not touch.
InitS ==
    /\ Constructed("Equals", [v \in 1..Other |-> 0], [v \in 1..NoSlots |-> NORMAL], 0, <<0, 1>>)
    /\ NoSolver
    /\ Function("sum")

NextS == AddConstraint \/ RemoveConstraint

SpecSolver == InitS /\ [][NextS]_vars

\* ================================================================== claims
\* The call being made in a step: every call records itself in last.
SolveForCall(k) == kind = k /\ last'.op = "solve_for" /\ ~last'.err

\* p = s + (e - s) * r within EPSILON, r = <<num, den>>, in exact arithmetic.
Near(p, s, e, r) == Abs((p - s) * r[2] - (e - s) * r[1]) < EPSILON * r[2]

\* C1 as stated: EqualsConstraint.solve_for(v) on values that differ by EPSILON
\* or more leaves v.value unchanged, sets the other variable to v.value, and
\* leaves a.value and b.value equal within tolerance.
C1_VIsAuthoritative ==
    [][(SolveForCall("Equals") /\ last'.arg \in {1, 2} /\ ~equals(value[1], value[2]))
        => LET v == last'.arg
               o == 3 - last'.arg
           IN  /\ value'[v] = value[v]
               /\ value'[o] = value[v]
               /\ equals(value'[1], value'[2])]_vars

\* C1 as amended: EqualsConstraint.solve_for(v) on values that differ by EPSILON
\* or more sets v.value to the other variable's value and leaves the other
\* variable unchanged; afterwards a.value and b.value are equal within tolerance.
C1_VIsOverwritten ==
    [][(SolveForCall("Equals") /\ last'.arg \in {1, 2} /\ ~equals(value[1], value[2]))
        => LET v == last'.arg
               o == 3 - last'.arg
           IN  /\ value'[o] = value[o]
               /\ value'[v] = value[o]
               /\ equals(value'[1], value'[2])]_vars

\* C1's case: solve_for(a) has just assigned to a, and only to a.
C1_Witness ==
    /\ kind = "Equals" /\ last.op = "solve_for" /\ last.arg = 1
    /\ last.wrote = {1} /\ value[1] = value[2]

\* Whether the constraint's relation holds within EPSILON on the values val.
Satisfied(k, val) ==
    CASE k = "Equals" -> equals(val[1], val[2])
      [] k = "Center" -> equals(val[3], RoundDiv(val[1] + val[2], 2))
      [] k = "LessThan" -> val[1] - (val[2] - delta) < EPSILON
      [] k = "Balance" -> equals(val[3], BalanceConstraint_value(val, balance))
      [] k = "Line" -> /\ equals(val[5], val[1] + MulFrac(val[3] - val[1], ratio_x))
                       /\ equals(val[6], val[2] + MulFrac(val[4] - val[2], ratio_y))
      [] k = "Equation" -> Abs(val[1] + val[2] - val[3]) < EPSILON

\* C2: for every constraint kind and every variable x of the constraint, a
\* solve_for(x) that follows a solve_for(x) directly changes no value, and a
\* solve_for(x) on a constraint whose relation holds within EPSILON writes nothing.
C2_Idempotent ==
    [][(/\ last'.op = "solve_for" /\ ~last'.err
        /\ last'.arg \in variables(kind)
        /\ \/ (last.op = "solve_for" /\ ~last.err /\ last.arg = last'.arg)
           \/ Satisfied(kind, value))
        => value' = value]_vars

\* C3: in every constraint kind, solve_for never assigns a variable a value
\* closer than EPSILON to the value the variable holds.
C3_WritesGuarded ==
    [][last'.op = "solve_for"
        => \A v \in 1..Other :
              value'[v] # value[v] => Abs(value'[v] - value[v]) >= EPSILON]_vars

\* C4: for every constraint kind, solve_for(x) with x not a variable of the
\* constraint raises and assigns to no variable.
C4_ForeignVariableRaises ==
    (last.op = "solve_for" /\ last.arg = Other) => (last.err /\ last.wrote = {})

\* C5: LessThanConstraint.solve_for(v), v smaller or bigger: afterwards
\* smaller <= bigger - delta + EPSILON; when smaller > bigger - delta held,
\* solve_for(smaller) sets bigger to smaller + delta and leaves smaller, and
\* solve_for(bigger) sets smaller to bigger - delta and leaves bigger; otherwise
\* nothing is written.
C5_LessThan ==
    [][(SolveForCall("LessThan") /\ last'.arg \in {1, 2})
        => /\ value'[1] <= value'[2] - delta + EPSILON
           /\ IF value[1] > value[2] - delta
              THEN IF last'.arg = 1
                   THEN value'[2] = value[1] + delta /\ value'[1] = value[1]
                   ELSE value'[1] = value[2] - delta /\ value'[2] = value[2]
              ELSE value' = value]_vars

\* C5's case: solve_for(smaller) has raised bigger by a positive delta.
C5_Witness ==
    /\ kind = "LessThan" /\ last.op = "solve_for" /\ last.arg = 1
    /\ last.wrote = {2} /\ delta > 0 /\ value[2] = value[1] + delta

\* C6: BalanceConstraint.solve_for(v): afterwards v = b1 + (b2 - b1) * balance
\* within tolerance, b1 and b2 are unchanged and so is balance; balance is
\* assigned by update_balance alone once the constraint is constructed.
C6_Balance ==
    [][/\ (SolveForCall("Balance") /\ last'.arg = 3)
            => /\ Near(value'[3], value'[1], value'[2], balance')
               /\ value'[1] = value[1]
               /\ value'[2] = value[2]
               /\ balance' = balance
       /\ balance' # balance => last'.op = "update_balance"]_vars

\* C6's case: solve_for(v) has moved v to a balance of one half of a band
\* that is not empty.
C6_Witness ==
    /\ kind = "Balance" /\ last.op = "solve_for" /\ last.arg = 3
    /\ last.wrote = {3} /\ balance = <<1, 2>> /\ value[1] # value[2]

\* What C7 says of solve_for: whatever its argument, afterwards the point is at
\* start + (end - start) * ratio on each axis within tolerance, and the four
\* endpoint values and both ratios are unchanged.
LineSolved ==
    SolveForCall("Line")
        => /\ Near(value'[5], value'[1], value'[3], ratio_x')
           /\ Near(value'[6], value'[2], value'[4], ratio_y')
           /\ \A v \in 1..4 : value'[v] = value[v]
           /\ ratio_x' = ratio_x /\ ratio_y' = ratio_y

\* An update_ratio() that follows a solve_for directly.
RatioRecaptured == kind = "Line" /\ last.op = "solve_for" /\ last'.op = "update_ratio"

\* C7 as stated: with the ratios captured on a segment that is not degenerate
\* (a ratio that is not 0 was), after the endpoints moved and solve_for ran the
\* point is on the line at the ratios, endpoints and ratios are unchanged, and
\* update_ratio() yields the same ratios again.
C7_RatioReproduced ==
    [][/\ LineSolved
       /\ (RatioRecaptured /\ ratio_x[1] # 0 /\ ratio_y[1] # 0)
            => (ratio_x' = ratio_x /\ ratio_y' = ratio_y)]_vars

\* The ratio r2 that update_ratio() finds on an axis after solve_for placed the
\* point at the ratio r: 0 on an axis of length len = 0, and else within
\* EPSILON / |len| of r.
RatioKept(r, r2, len) ==
    IF len = 0 THEN r2 = <<0, 1>>
    ELSE Abs(r2[1] * r[2] - r[1] * r2[2]) * Abs(len) < EPSILON * r[2] * r2[2]

\* C7 as amended: after the endpoints moved and solve_for ran, the point is on
\* the line at the ratios within tolerance, endpoints and ratios are unchanged;
\* update_ratio() then yields 0.0 on an axis where the segment has become
\* degenerate, and on any other axis a ratio whose distance from the captured
\* one, times the segment's length on that axis, is below EPSILON.
C7_RatioKeptWithinTolerance ==
    [][/\ LineSolved
       /\ RatioRecaptured
            => /\ RatioKept(ratio_x, ratio_x', value[3] - value[1])
               /\ RatioKept(ratio_y, ratio_y', value[4] - value[2])]_vars

\* C7's case: the endpoints moved away from where ratios that are not 0 were
\* captured, and solve_for has moved the point on both axes.
C7_Witness ==
    /\ kind = "Line" /\ last.op = "solve_for" /\ last.wrote = {5, 6}
    /\ ratio_x[1] # 0 /\ ratio_y[1] # 0
    /\ value[1] # value[3] /\ value[2] # value[4]

\* The list l turned left by r places.
Rotate(l, r) == SubSeq(l, r + 1, Len(l)) \o SubSeq(l, 1, r)

\* C8: with k variables of the minimum strength, weakest() after n calls
\* mark_dirty(weakest()) is the (n mod k)-th of them in list order, the list is
\* the original one turned n mod k places (the original one after k calls), and
\* mark_dirty(v) for another v leaves the list as it is.
C8_RoundRobin ==
    LET orig == create_weakest_list(kind, strength)
        k == Len(orig)
    IN  /\ weakest = Rotate(orig, marks % k)
        /\ weakest_var = orig[(marks % k) + 1]

\* C8's case: three equally weak variables, back in their order after three calls.
C8_Witness ==
    /\ Len(weakest) = 3 /\ marks = 3 /\ last.op = "mark_dirty"
    /\ weakest = create_weakest_list(kind, strength)

\* The variables of the constraint that have the minimum strength among them.
MinStrength == {v \in variables(kind) :
                   \A u \in variables(kind) : strength[v] <= strength[u]}

\* C9: whatever add_constraint and remove_constraint calls were made,
\* constraints_with_variable(v) is exactly the registered constraints that
\* reference v: never a removed one, and nothing once all of v's are removed.
C9_IndexIntegrity ==
    \A v \in SolverVars :
        constraints_with_variable(index, v) = {c \in registered : v \in c}

\* C9's case: a remove_constraint(c) took the last constraint of a variable of c
\* away while other constraints are still registered.
C9_Witness ==
    /\ last.op = "remove_constraint" /\ registered # {}
    /\ \E v \in last.arg : constraints_with_variable(index, v) = {}

\* C10: after construction and any mark_dirty and solve_for calls, the weakest
\* list is not empty and lists each minimum-strength variable of the constraint
\* once and nothing else, so weakest() has the minimum strength.
C10_WeakestList ==
    /\ weakest # <<>>
    /\ Len(weakest) = Cardinality(MinStrength)
    /\ {weakest[i] : i \in 1..Len(weakest)} = MinStrength
    /\ weakest_var \in MinStrength

\* C10's case: a solve_for that wrote, after a mark_dirty turned a list that
\* leaves some stronger variable out.
C10_Witness ==
    /\ last.op = "solve_for" /\ last.wrote # {} /\ marks > 0
    /\ Len(weakest) > 1 /\ Len(weakest) < NumVariables(kind)

\* C11: EquationConstraint._solve_for terminates whatever the function and the
\* values: the loop body runs at most ITERLIMIT + 2 times, no division raises
\* (the divisor x1 - x0 is used only after the x1 == x0 test, the divisor slope
\* only after the slope == 0 test), every exit, among them the one by the
\* iteration limit and the one by a zero slope, returns the estimate x1, and a
\* call that has entered the loop returns.
C11_Bounded ==
    /\ equation.passes <= ITERLIMIT + 2
    /\ equation.pc # "raised"
    /\ equation.pc = "returned" => equation.result = equation.x1
    /\ equation.exit \in {"limit", "slope"} => equation.pc = "returned"

C11_Terminates ==
    /\ []C11_Bounded
    /\ (equation.pc = "loop") ~> (equation.pc = "returned")

\* A call that left the loop by the iteration limit, in pass ITERLIMIT + 2.
C11_Witness ==
    /\ equation.pc = "returned"
    /\ equation.exit = "limit"
    /\ equation.passes = ITERLIMIT + 2
    /\ equation.n = ITERLIMIT + 1

====
